---- MODULE Spec2Model ----
(***************************************************************************)
(* A model of the fdb-mutex distributed mutex: the schema and the          *)
(* transactions of kv.go, the Mutex surface (NewMutex, TryAcquire,         *)
(* Release, the heartbeat goroutine), the blocking Acquire and the         *)
(* auto-release loop with its clock.                                       *)
(*                                                                         *)
(* The store is FoundationDB: every db.Transact is serializable, so a      *)
(* transaction whose reads and writes all go through its own `tr` is one   *)
(* atomic step.  A callee that is handed `db` instead of `tr` runs its own *)
(* transaction, which is a separate step.                                  *)
(***************************************************************************)
EXTENDS Integers, Sequences, FiniteSets, TLC

\* ------------------------------------------------------------------ bounds

\* Versionstamps handed out by the store (queue keys and heartbeat values).
MaxVersion == 3

\* Heartbeat goroutines one Mutex may have running at once.
MaxTasks == 2

\* max_age of the auto-release loop, in ticks of the clock.
MaxAge == 2

\* Bytes in a client name handed to packOwnerKey.
MaxName == 4

\* ------------------------------------------------------------------ names

\* Client names; NewMutex never leaves a name blank.
Clients == {"a", "b", "c"}

\* The blank owner name written by NewMutex and by a Release on an empty queue.
Unowned == ""

Names == Clients \cup {Unowned}

\* The two clients of the specifications that run every goroutine.
Pair == {"a", "b"}

\* The auto-release loops, and the one loop of the specifications below.
Reapers == {"r1", "r2"}

Solo == {"r1"}

\* The order of packed owner keys: the tuple encoding preserves the order of
\* the strings, and the blank name sorts first.
Rank(n) == CASE n = "" -> 0 [] n = "a" -> 1 [] n = "b" -> 2 [] n = "c" -> 3

\* ------------------------------------------------------------------ state

VARIABLES
    owner,      \* the owner range: owner name -> heartbeat value (<<>> or <<versionstamp>>)
    queue,      \* the queue range: set of [key |-> versionstamp, name |-> client]
    version,    \* the last versionstamp the store handed out
    pc,         \* where each client's foreground call is
    blocking,   \* whether the client's current call is Acquire (TRUE) or TryAcquire
    held,       \* the client was told it holds the lock and has not called Release
    beatIdle,   \* heartbeat goroutines of the client waiting in their select
    beatWrite,  \* heartbeat goroutines that read themselves as owner and have not committed
    watch,      \* the watch a blocked Acquire waits on: [key, val]
    last,       \* the last foreground step that returned: <<what, client>>
    written,    \* time since the owner range was last written, up to MaxAge
    reapPc,     \* where each auto-release loop is
    snapshot,   \* the owner record each loop last observed: [name, hbeat]
    tstamp,     \* time since each loop's tstamp, up to MaxAge
    timer,      \* each loop's timer: <<>> stopped or drained, <<k>> fires in k
    reapWatch,  \* the watch each loop waits on: [key, val]
    reapCtx,    \* the ctx of each loop has been cancelled
    ctx,        \* the ctx of the client's Acquire has been cancelled
    signal      \* what the channel of the client's watch has yielded: none, ok, err

reapVars == <<reapPc, snapshot, tstamp, timer, reapWatch, reapCtx>>

cancelVars == <<ctx, signal>>

vars == <<owner, queue, version, pc, blocking, held, beatIdle, beatWrite, watch, last,
          written, reapVars, cancelVars>>

\* ------------------------------------------------------------------ kv.go

\* An empty heartbeat value (tr.Set(key, nil)).
NoBeat == <<>>

\* The value a versionstamped write leaves: the commit's versionstamp.
packOwnerValue(v) == <<v>>

\* A faulty setOwner that sets the key without clearing the range first.
setOwnerNoClear(name) == (name :> NoBeat) @@ owner

\* A faulty setOwner that leaves the range empty for the blank name.
setOwnerBlankClears(name) == IF name = Unowned THEN <<>> ELSE name :> NoBeat

\* A faulty setOwner that keeps the heartbeat of a name that is owner already.
setOwnerKeepsBeat(name) == name :> (IF name \in DOMAIN owner THEN owner[name] ELSE NoBeat)

\* setOwner: clear the owner range, then set the one key with an empty value.
setOwner(name) == name :> NoBeat

\* getOwner: the first key-value of the owner range, or the zero ownerKV.
getOwner(o) ==
    IF DOMAIN o = {}
    THEN [name |-> "", hbeat |-> NoBeat]
    ELSE LET k == CHOOSE k \in DOMAIN o : \A j \in DOMAIN o : Rank(k) <= Rank(j)
         IN  [name |-> k, hbeat |-> o[k]]

\* The value stored under an owner key, as a watch sees it: <<>> when the key
\* is absent, <<value>> when it is present.
KeyVal(o, name) == IF name \in DOMAIN o THEN <<o[name]>> ELSE <<>>

\* A faulty head: the entry whose name comes first in the alphabet.
QueueHeadByName(q) == CHOOSE e \in q : \A f \in q : Rank(e.name) <= Rank(f.name)

\* The entry with the smallest key of a non-empty queue range.
QueueHead(q) == CHOOSE e \in q : \A f \in q : e.key <= f.key

\* A faulty enqueue that does not look for the name in the queue.
enqueueAlways(q, name, v) == q \cup {[key |-> v, name |-> name]}

\* enqueue: a no-op when the name is queued, else a key stamped with the
\* commit's versionstamp v.
enqueue(q, name, v) ==
    IF \E e \in q : e.name = name
    THEN q
    ELSE q \cup {[key |-> v, name |-> name]}

\* A faulty dequeue that clears the head and returns the blank name.
dequeueDrops(q) ==
    IF q = {}
    THEN [name |-> "", queue |-> q]
    ELSE [name |-> "", queue |-> q \ {QueueHead(q)}]

\* A faulty dequeue that pops the entry with the largest key.
dequeueLast(q) ==
    IF q = {}
    THEN [name |-> "", queue |-> q]
    ELSE LET l == CHOOSE e \in q : \A f \in q : f.key <= e.key
         IN  [name |-> l.name, queue |-> q \ {l}]

\* dequeue: "" on an empty queue, else the head's name, the head cleared.
dequeue(q) ==
    IF q = {}
    THEN [name |-> "", queue |-> q]
    ELSE [name |-> QueueHead(q).name, queue |-> q \ {QueueHead(q)}]

\* ------------------------------------------------------------------ Mutex

Init ==
    /\ owner = <<>>
    /\ queue = {}
    /\ version = 0
    /\ pc = [c \in Clients |-> "none"]
    /\ blocking = [c \in Clients |-> FALSE]
    /\ held = [c \in Clients |-> FALSE]
    /\ beatIdle = [c \in Clients |-> 0]
    /\ beatWrite = [c \in Clients |-> 0]
    /\ watch = [c \in Clients |-> [key |-> "", val |-> <<>>]]
    /\ last = <<"init", "">>
    /\ written = 0
    /\ reapPc = [r \in Reapers |-> "off"]
    /\ snapshot = [r \in Reapers |-> [name |-> "", hbeat |-> NoBeat]]
    /\ tstamp = [r \in Reapers |-> 0]
    /\ timer = [r \in Reapers |-> <<>>]
    /\ reapWatch = [r \in Reapers |-> [key |-> "", val |-> <<>>]]
    /\ reapCtx = [r \in Reapers |-> FALSE]
    /\ ctx = [c \in Clients |-> FALSE]
    /\ signal = [c \in Clients |-> "none"]

\* NewMutex: set a blank owner and hand out the Mutex.
NewMutex(c) ==
    /\ pc[c] = "none"
    /\ owner' = setOwner(Unowned)
    /\ pc' = [pc EXCEPT ![c] = "idle"]
    /\ last' = <<"NewMutex", c>>
    /\ written' = 0
    /\ UNCHANGED <<queue, version, blocking, held, beatIdle, beatWrite, watch, reapVars, cancelVars>>

\* A faulty startBeating that starts no goroutine.
startBeatingNone(idle, c) == idle

\* startBeating: one more heartbeat goroutine, waiting in its select.
startBeating(idle, c) == [idle EXCEPT ![c] = @ + 1]

\* A faulty TryAcquire that sets the owner again when the caller owns the lock.
tryOwnerReset(o, c) ==
    CASE o.name = c -> setOwner(c)
      [] o.name = Unowned -> setOwner(c)
      [] OTHER -> owner

\* The owner range the transaction of TryAcquire commits, o being the owner it
\* read: nothing is written for the caller's own name or a foreign name, and
\* setOwner(c) for the blank name.
tryOwner(o, c) ==
    CASE o.name = c -> owner
      [] o.name = Unowned -> setOwner(c)
      [] OTHER -> owner

\* The transaction of TryAcquire and what follows its commit; blk tells whether
\* Acquire made the call.  The owner's own name and the blank name are decided
\* inside the transaction (getOwner and setOwner run on tr), and true is
\* returned after startBeating.  A foreign owner leaves the enqueue to a
\* transaction of its own (enqueue runs on db), which is the step TryEnqueue.
TryTx(c, blk) ==
    LET o == getOwner(owner) IN
    /\ owner' = tryOwner(o, c)
    /\ IF o.name \in {c, Unowned}
       THEN /\ beatIdle[c] + beatWrite[c] < MaxTasks
            /\ beatIdle' = startBeating(beatIdle, c)
            /\ held' = [held EXCEPT ![c] = TRUE]
            /\ pc' = [pc EXCEPT ![c] = "idle"]
            /\ blocking' = [blocking EXCEPT ![c] = FALSE]
            /\ last' = <<IF o.name = c THEN "TryOwn" ELSE "TryFree", c>>
       ELSE /\ pc' = [pc EXCEPT ![c] = "enqueue"]
            /\ blocking' = [blocking EXCEPT ![c] = blk]
            /\ last' = <<"TryRead", c>>
            /\ UNCHANGED <<held, beatIdle>>
    /\ written' = IF o.name = Unowned THEN 0 ELSE written
    /\ ctx' = [ctx EXCEPT ![c] = IF o.name \in {c, Unowned} THEN FALSE ELSE @]
    /\ signal' = [signal EXCEPT ![c] = "none"]
    /\ UNCHANGED <<queue, version, beatWrite, watch, reapVars>>

\* TryAcquire, called on an idle Mutex.
TryAcquire(c) ==
    /\ pc[c] = "idle"
    /\ TryTx(c, FALSE)

\* Acquire, called on an idle Mutex: the first TryAcquire of its loop.
Acquire(c) ==
    /\ pc[c] = "idle"
    /\ TryTx(c, TRUE)

\* Acquire, after its watch fired: TryAcquire again.
AcquireRetry(c) ==
    /\ pc[c] = "retry"
    /\ TryTx(c, TRUE)

\* watchOwner: one transaction reads the owner and registers a watch on that
\* owner's key, which remembers the value the key has now.
watchOwner(c) ==
    /\ pc[c] = "watch"
    /\ LET o == getOwner(owner)
       IN  watch' = [watch EXCEPT ![c] = [key |-> o.name, val |-> KeyVal(owner, o.name)]]
    /\ pc' = [pc EXCEPT ![c] = "wait"]
    /\ UNCHANGED <<owner, queue, version, blocking, held, beatIdle, beatWrite, last,
                   written, reapVars, cancelVars>>

\* watchOwner when its transaction fails: the error is put on the channel at
\* once, no goroutine is started, and the waiting call returns the error.
watchOwnerFail(c) ==
    /\ pc[c] = "watch"
    /\ signal' = [signal EXCEPT ![c] = "err"]
    /\ pc' = [pc EXCEPT ![c] = "idle"]
    /\ blocking' = [blocking EXCEPT ![c] = FALSE]
    /\ last' = <<"WatchErr", c>>
    /\ UNCHANGED <<owner, queue, version, held, beatIdle, beatWrite, watch,
                   written, reapVars, ctx>>

\* A faulty watch that stays registered after it fired and fires again.
WatchFireAgain(c) ==
    /\ pc[c] \in {"wait", "retry"}
    /\ KeyVal(owner, watch[c].key) /= watch[c].val
    /\ pc' = [pc EXCEPT ![c] = "retry"]
    /\ signal' = [signal EXCEPT ![c] = IF @ = "ok" THEN "ok2" ELSE "ok"]
    /\ UNCHANGED <<owner, queue, version, blocking, held, beatIdle, beatWrite, last,
                   written, reapVars, ctx, watch>>

\* The store fires a watch once the watched key no longer has the value it
\* had when the watch was registered; Acquire then loops.
WatchFire(c) ==
    /\ pc[c] = "wait"
    /\ KeyVal(owner, watch[c].key) /= watch[c].val
    /\ watch' = [watch EXCEPT ![c] = [key |-> "", val |-> <<>>]]
    /\ pc' = [pc EXCEPT ![c] = "retry"]
    /\ signal' = [signal EXCEPT ![c] = "ok"]
    /\ UNCHANGED <<owner, queue, version, blocking, held, beatIdle, beatWrite, last,
                   written, reapVars, ctx>>

\* A faulty helper that lets the cancelled watch report success.
WatchCancelOk(c) ==
    /\ pc[c] = "wait"
    /\ ctx[c]
    /\ signal' = [signal EXCEPT ![c] = "ok"]
    /\ watch' = [watch EXCEPT ![c] = [key |-> "", val |-> <<>>]]
    /\ pc' = [pc EXCEPT ![c] = "retry"]
    /\ UNCHANGED <<owner, queue, version, blocking, held, beatIdle, beatWrite, last,
                   written, reapVars, ctx>>

\* A faulty Acquire that reports the caller as holder when it is cancelled.
WatchCancelHolder(c) ==
    /\ pc[c] = "wait"
    /\ ctx[c]
    /\ signal' = [signal EXCEPT ![c] = "err"]
    /\ watch' = [watch EXCEPT ![c] = [key |-> "", val |-> <<>>]]
    /\ pc' = [pc EXCEPT ![c] = "idle"]
    /\ blocking' = [blocking EXCEPT ![c] = FALSE]
    /\ ctx' = [ctx EXCEPT ![c] = FALSE]
    /\ last' = <<"Cancelled", c>>
    /\ held' = [held EXCEPT ![c] = TRUE]
    /\ UNCHANGED <<owner, queue, version, beatIdle, beatWrite, written, reapVars>>

\* The ctx of a client that waits in Acquire is cancelled.
CtxCancel(c) ==
    /\ pc[c] = "wait"
    /\ ~ctx[c]
    /\ ctx' = [ctx EXCEPT ![c] = TRUE]
    /\ UNCHANGED <<owner, queue, version, pc, blocking, held, beatIdle, beatWrite, watch, last,
                   written, reapVars, signal>>

\* watchOwner's helper goroutine: once ctx is done it cancels the store watch,
\* watch.Get() returns the error and the channel yields it; Acquire returns
\* the cancellation error.
WatchCancel(c) ==
    /\ pc[c] = "wait"
    /\ ctx[c]
    /\ signal' = [signal EXCEPT ![c] = "err"]
    /\ watch' = [watch EXCEPT ![c] = [key |-> "", val |-> <<>>]]
    /\ pc' = [pc EXCEPT ![c] = "idle"]
    /\ blocking' = [blocking EXCEPT ![c] = FALSE]
    /\ ctx' = [ctx EXCEPT ![c] = FALSE]
    /\ last' = <<"Cancelled", c>>
    /\ UNCHANGED <<owner, queue, version, held, beatIdle, beatWrite, written, reapVars>>

\* The enqueue transaction of a TryAcquire that read a foreign owner; TryAcquire
\* then returns false, and Acquire goes on to watch the owner.
TryEnqueue(c) ==
    /\ pc[c] = "enqueue"
    /\ \/ \E e \in queue : e.name = c
       \/ version < MaxVersion
    /\ queue' = enqueue(queue, c, version + 1)
    /\ version' = IF queue' = queue THEN version ELSE version + 1
    /\ pc' = [pc EXCEPT ![c] = IF blocking[c] THEN "watch" ELSE "idle"]
    /\ last' = <<"TryFalse", c>>
    /\ UNCHANGED <<owner, blocking, held, beatIdle, beatWrite, watch, written, reapVars, cancelVars>>

\* A faulty Release that hands the lock over without looking at the owner.
ReleaseAlways(c) ==
    /\ pc[c] = "idle"
    /\ LET d == dequeue(queue)
       IN  /\ queue' = d.queue
           /\ owner' = setOwner(d.name)
           /\ last' = <<"ReleaseIdle", c>>
           /\ written' = 0
    /\ held' = [held EXCEPT ![c] = FALSE]
    /\ pc' = [pc EXCEPT ![c] = "stop"]
    /\ UNCHANGED <<version, blocking, beatIdle, beatWrite, watch, reapVars, cancelVars>>

\* Release: hand the lock to the head of the queue if the caller owns it, then
\* stopBeating, whichever way the transaction went.
Release(c) ==
    /\ pc[c] = "idle"
    /\ LET o == getOwner(owner)
           d == dequeue(queue)
       IN  IF o.name = c
           THEN /\ queue' = d.queue
                /\ owner' = setOwner(d.name)
                /\ last' = <<"Release", c>>
                /\ written' = 0
           ELSE /\ UNCHANGED <<owner, queue, written>>
                /\ last' = <<"ReleaseIdle", c>>
    /\ held' = [held EXCEPT ![c] = FALSE]
    /\ pc' = [pc EXCEPT ![c] = "stop"]
    /\ UNCHANGED <<version, blocking, beatIdle, beatWrite, watch, reapVars, cancelVars>>

\* stopBeating: the send on the unbuffered stop channel completes when a
\* heartbeat goroutine takes it in its select, and that goroutine returns.
stopBeating(c) ==
    /\ pc[c] = "stop"
    /\ beatIdle[c] > 0
    /\ beatIdle' = [beatIdle EXCEPT ![c] = @ - 1]
    /\ pc' = [pc EXCEPT ![c] = "idle"]
    /\ last' = <<"Released", c>>
    /\ UNCHANGED <<owner, queue, version, blocking, held, beatWrite, watch, written, reapVars, cancelVars>>

\* heartbeat, first half: a tick; getOwner runs on db, a read transaction of its
\* own.  A reader that is not the owner returns at once (no step).
HeartbeatRead(c) ==
    /\ beatIdle[c] > 0
    /\ getOwner(owner).name = c
    /\ beatIdle' = [beatIdle EXCEPT ![c] = @ - 1]
    /\ beatWrite' = [beatWrite EXCEPT ![c] = @ + 1]
    /\ UNCHANGED <<owner, queue, version, pc, blocking, held, watch, last, written, reapVars, cancelVars>>

\* A faulty write that stamps the value with the versionstamp before.
heartbeatWriteStale(o, name, v) == (name :> packOwnerValue(v - 1)) @@ o

\* The owner range after SetVersionstampedValue on the owner key of name.
heartbeatWrite(o, name, v) == (name :> packOwnerValue(v)) @@ o

\* heartbeat, second half: the write transaction commits.
HeartbeatWrite(c) ==
    /\ beatWrite[c] > 0
    /\ version < MaxVersion
    /\ owner' = heartbeatWrite(owner, c, version + 1)
    /\ version' = version + 1
    /\ beatWrite' = [beatWrite EXCEPT ![c] = @ - 1]
    /\ beatIdle' = [beatIdle EXCEPT ![c] = @ + 1]
    /\ written' = 0
    /\ UNCHANGED <<queue, pc, blocking, held, watch, last, reapVars, cancelVars>>

\* ------------------------------------------------------------------ auto-release

\* The owner goes silent: its heartbeat goroutines are stopped and it makes no
\* further call.
Crash(c) ==
    /\ pc[c] \in {"idle", "enqueue", "stop"}
    /\ pc' = [pc EXCEPT ![c] = "dead"]
    /\ held' = [held EXCEPT ![c] = FALSE]
    /\ beatIdle' = [beatIdle EXCEPT ![c] = 0]
    /\ beatWrite' = [beatWrite EXCEPT ![c] = 0]
    /\ UNCHANGED <<owner, queue, version, blocking, watch, last, written, reapVars, cancelVars>>

\* One tick of the clock: ages grow up to MaxAge, running timers count down.
Tick ==
    /\ written' = IF written < MaxAge THEN written + 1 ELSE written
    /\ tstamp' = [r \in Reapers |->
                    IF reapPc[r] \notin {"off", "done"} /\ tstamp[r] < MaxAge THEN tstamp[r] + 1 ELSE tstamp[r]]
    /\ timer' = [r \in Reapers |->
                    IF timer[r] /= <<>> /\ timer[r][1] > 0 THEN <<timer[r][1] - 1>> ELSE timer[r]]
    /\ UNCHANGED <<owner, queue, version, pc, blocking, held, beatIdle, beatWrite, watch, last, cancelVars,
                   reapPc, snapshot, reapWatch, reapCtx>>

\* auto_release, step 1: owner_snapshot = get_owner(), tstamp = now.
AutoRelease(r) ==
    /\ reapPc[r] = "off"
    /\ snapshot' = [snapshot EXCEPT ![r] = getOwner(owner)]
    /\ tstamp' = [tstamp EXCEPT ![r] = 0]
    /\ reapPc' = [reapPc EXCEPT ![r] = "arm"]
    /\ UNCHANGED <<owner, queue, version, pc, blocking, held, beatIdle, beatWrite, watch, last, cancelVars,
                   written, timer, reapWatch, reapCtx>>

\* auto_release, the rest of step 1 and the end of step 4: watch_owner in a
\* transaction of its own; the first time the timer is started as well.
ReapWatch(r) ==
    /\ reapPc[r] \in {"arm", "watch"}
    /\ LET o == getOwner(owner)
       IN  reapWatch' = [reapWatch EXCEPT ![r] = [key |-> o.name, val |-> KeyVal(owner, o.name)]]
    /\ timer' = [timer EXCEPT ![r] = IF reapPc[r] = "arm" THEN <<MaxAge>> ELSE @]
    /\ reapPc' = [reapPc EXCEPT ![r] = "wait"]
    /\ UNCHANGED <<owner, queue, version, pc, blocking, held, beatIdle, beatWrite, watch, last, cancelVars,
                   written, snapshot, tstamp, reapCtx>>

\* A faulty test that does not look at the time since tstamp.
reapLiveNoAge(cur, snap, age) == cur /= snap

\* auto_release, step 3: the lock is live when the owner read differs from the
\* snapshot or less than max_age has passed since tstamp.
reapLive(cur, snap, age) == cur /= snap \/ age < MaxAge

\* auto_release, steps 2 to 4: the watch or the timer fires, the check
\* transaction commits, and the snapshot, tstamp and timer follow the record
\* the transaction returned.
ReapCheck(r) ==
    /\ reapPc[r] = "wait"
    /\ \E woke \in {"watch", "timer"} :
        /\ woke = "watch" => KeyVal(owner, reapWatch[r].key) /= reapWatch[r].val
        /\ woke = "timer" => timer[r] = <<0>>
        /\ LET cur == getOwner(owner)
               live == reapLive(cur, snapshot[r], tstamp[r])
               d == dequeue(queue)
               ret == IF live THEN cur ELSE [name |-> d.name, hbeat |-> NoBeat]
               left == IF woke = "timer" THEN <<>> ELSE timer[r]
           IN  /\ IF live
                  THEN UNCHANGED <<owner, queue, written, last>>
                  ELSE /\ queue' = d.queue
                       /\ owner' = setOwner(d.name)
                       /\ written' = 0
                       /\ last' = <<"Reclaim", cur.name>>
               /\ IF ret /= snapshot[r]
                  THEN /\ snapshot' = [snapshot EXCEPT ![r] = ret]
                       /\ tstamp' = [tstamp EXCEPT ![r] = 0]
                       /\ timer' = [timer EXCEPT ![r] = <<MaxAge>>]
                  ELSE /\ timer' = [timer EXCEPT ![r] = left]
                       /\ UNCHANGED <<snapshot, tstamp>>
    /\ reapWatch' = [reapWatch EXCEPT ![r] = [key |-> "", val |-> <<>>]]
    /\ reapPc' = [reapPc EXCEPT ![r] = "watch"]
    /\ UNCHANGED <<version, pc, blocking, held, beatIdle, beatWrite, watch, cancelVars, reapCtx>>

\* The caller cancels the ctx of a running loop.
ReapCancel(r) ==
    /\ reapPc[r] \notin {"off", "done"}
    /\ ~reapCtx[r]
    /\ reapCtx' = [reapCtx EXCEPT ![r] = TRUE]
    /\ UNCHANGED <<owner, queue, version, pc, blocking, held, beatIdle, beatWrite, watch, last, cancelVars,
                   written, reapPc, snapshot, tstamp, timer, reapWatch>>

\* A faulty return that takes any wait for a cancellation.
ReapReturnEarly(r) ==
    /\ reapPc[r] = "wait"
    /\ reapPc' = [reapPc EXCEPT ![r] = "done"]
    /\ reapWatch' = [reapWatch EXCEPT ![r] = [key |-> "", val |-> <<>>]]
    /\ snapshot' = [snapshot EXCEPT ![r] = [name |-> "", hbeat |-> NoBeat]]
    /\ tstamp' = [tstamp EXCEPT ![r] = 0]
    /\ timer' = [timer EXCEPT ![r] = <<>>]
    /\ last' = <<"ReapCancelled", r>>
    /\ UNCHANGED <<owner, queue, version, pc, blocking, held, beatIdle, beatWrite, watch, cancelVars,
                   written, reapCtx>>

\* auto_release, step 2 with ctx cancelled: the watch of the loop yields the
\* cancellation error and the loop returns it; the watch, the timer and the
\* local state of the loop are gone.
ReapReturn(r) ==
    /\ reapPc[r] = "wait"
    /\ reapCtx[r]
    /\ reapPc' = [reapPc EXCEPT ![r] = "done"]
    /\ reapWatch' = [reapWatch EXCEPT ![r] = [key |-> "", val |-> <<>>]]
    /\ snapshot' = [snapshot EXCEPT ![r] = [name |-> "", hbeat |-> NoBeat]]
    /\ tstamp' = [tstamp EXCEPT ![r] = 0]
    /\ timer' = [timer EXCEPT ![r] = <<>>]
    /\ last' = <<"ReapCancelled", r>>
    /\ UNCHANGED <<owner, queue, version, pc, blocking, held, beatIdle, beatWrite, watch, cancelVars,
                   written, reapCtx>>

\* The check transaction of loop r presumes the owner dead and replaces it.
Reclaim(r) ==
    /\ ReapCheck(r)
    /\ ~reapLive(getOwner(owner), snapshot[r], tstamp[r])

\* ------------------------------------------------------------------ store errors

\* NewMutex as it was before the error of setOwner was handled: the Mutex is
\* handed out although the owner key was not written.
NewMutexIgnoresErr(c) ==
    /\ pc[c] = "none"
    /\ pc' = [pc EXCEPT ![c] = "idle"]
    /\ last' = <<"NewMutex", c>>
    /\ UNCHANGED <<owner, queue, version, blocking, held, beatIdle, beatWrite, watch, written,
                   reapVars, cancelVars>>

\* NewMutex when the transaction of setOwner("") fails: nothing is committed,
\* and Mutex{} is returned with the error.
NewMutexFail(c) ==
    /\ pc[c] = "none"
    /\ last' = <<"NewMutexErr", c>>
    /\ UNCHANGED <<owner, queue, version, pc, blocking, held, beatIdle, beatWrite, watch, written,
                   reapVars, cancelVars>>

\* TryAcquire when its transaction fails (the read of the owner, or the commit
\* of setOwner): nothing is committed, and false is returned with the error
\* before startBeating is reached.
TryAcquireFail(c) ==
    /\ pc[c] = "idle"
    /\ last' = <<"TryErr", c>>
    /\ UNCHANGED <<owner, queue, version, pc, blocking, held, beatIdle, beatWrite, watch, written,
                   reapVars, cancelVars>>

\* TryAcquire when the transaction of its enqueue fails: the error goes out
\* through the outer transaction, and false is returned with it.
TryEnqueueFail(c) ==
    /\ pc[c] = "enqueue"
    /\ ~blocking[c]
    /\ pc' = [pc EXCEPT ![c] = "idle"]
    /\ last' = <<"TryErr", c>>
    /\ UNCHANGED <<owner, queue, version, blocking, held, beatIdle, beatWrite, watch, written,
                   reapVars, cancelVars>>

\* A faulty Release that stops the heartbeat although its transaction failed.
ReleaseFailStops(c) ==
    /\ pc[c] = "idle"
    /\ pc' = [pc EXCEPT ![c] = "stop"]
    /\ held' = [held EXCEPT ![c] = FALSE]
    /\ last' = <<"ReleaseErr", c>>
    /\ UNCHANGED <<owner, queue, version, blocking, beatIdle, beatWrite, watch, written,
                   reapVars, cancelVars>>

\* Release when its transaction fails: nothing is committed, and the error is
\* returned before stopBeating is reached.
ReleaseFail(c) ==
    /\ pc[c] = "idle"
    /\ last' = <<"ReleaseErr", c>>
    /\ UNCHANGED <<owner, queue, version, pc, blocking, held, beatIdle, beatWrite, watch, written,
                   reapVars, cancelVars>>

\* A faulty heartbeat goroutine that returns when its heartbeat call fails.
HeartbeatFailStops(c) ==
    /\ beatWrite[c] > 0
    /\ beatWrite' = [beatWrite EXCEPT ![c] = @ - 1]
    /\ last' = <<"BeatErr", c>>
    /\ UNCHANGED <<owner, queue, version, pc, blocking, held, beatIdle, watch, written,
                   reapVars, cancelVars>>

\* The heartbeat call of a goroutine fails in its write transaction: nothing
\* is committed, the goroutine drops the error and goes back to its select.
\* (A call that fails in its read of the owner leaves every variable as it
\* is.)  last notes the dropped error.
HeartbeatFail(c) ==
    /\ beatWrite[c] > 0
    /\ beatWrite' = [beatWrite EXCEPT ![c] = @ - 1]
    /\ beatIdle' = [beatIdle EXCEPT ![c] = @ + 1]
    /\ last' = <<"BeatErr", c>>
    /\ UNCHANGED <<owner, queue, version, pc, blocking, held, watch, written,
                   reapVars, cancelVars>>

\* ------------------------------------------------------------------ kv

\* The methods of kv called on their own, one after the other, as TestKV
\* calls them.

\* kv.setOwner(db, name); last keeps the owner record it replaced.
KvSetOwner(n) ==
    /\ owner' = setOwner(n)
    /\ written' = 0
    /\ last' = <<"setOwner", n, getOwner(owner)>>
    /\ UNCHANGED <<queue, version, pc, blocking, held, beatIdle, beatWrite, watch,
                   reapVars, cancelVars>>

\* kv.enqueue(db, name).
KvEnqueue(n) ==
    /\ n /= Unowned
    /\ \/ \E e \in queue : e.name = n
       \/ version < MaxVersion
    /\ queue' = enqueue(queue, n, version + 1)
    /\ version' = IF queue' = queue THEN version ELSE version + 1
    /\ last' = <<"enqueue", n>>
    /\ UNCHANGED <<owner, pc, blocking, held, beatIdle, beatWrite, watch, written,
                   reapVars, cancelVars>>

\* A faulty dequeue that installs the name it popped as owner.
KvDequeuePromotes ==
    LET d == dequeue(queue) IN
    /\ queue' = d.queue
    /\ owner' = setOwner(d.name)
    /\ last' = <<"dequeue", d.name>>
    /\ UNCHANGED <<version, pc, blocking, held, beatIdle, beatWrite, watch, written,
                   reapVars, cancelVars>>

\* kv.dequeue(db); last keeps the name it returned.
KvDequeue ==
    LET d == dequeue(queue) IN
    /\ queue' = d.queue
    /\ last' = <<"dequeue", d.name>>
    /\ UNCHANGED <<owner, version, pc, blocking, held, beatIdle, beatWrite, watch, written,
                   reapVars, cancelVars>>

\* A faulty heartbeat that does not return early for the blank name.
KvHeartbeatBlank(n) ==
    /\ IF getOwner(owner).name = n /\ n \in DOMAIN owner
       THEN /\ version < MaxVersion
            /\ owner' = heartbeatWrite(owner, n, version + 1)
            /\ version' = version + 1
            /\ written' = 0
       ELSE UNCHANGED <<owner, version, written>>
    /\ last' = <<"heartbeat", n>>
    /\ UNCHANGED <<queue, pc, blocking, held, beatIdle, beatWrite, watch,
                   reapVars, cancelVars>>

\* kv.heartbeat(db, name) with no other transaction between its read of the
\* owner and its write: a no-op for the blank name and for a name that is not
\* the owner's.
KvHeartbeat(n) ==
    /\ IF n /= Unowned /\ getOwner(owner).name = n
       THEN /\ version < MaxVersion
            /\ owner' = heartbeatWrite(owner, n, version + 1)
            /\ version' = version + 1
            /\ written' = 0
       ELSE UNCHANGED <<owner, version, written>>
    /\ last' = <<"heartbeat", n>>
    /\ UNCHANGED <<queue, pc, blocking, held, beatIdle, beatWrite, watch,
                   reapVars, cancelVars>>

\* ------------------------------------------------------------------ keys

\* The bytes a name is made of here: the byte the tuple encoding escapes, the
\* byte it escapes with, and the type code of a string.
NameBytes == {0, 2, 255}

\* Every name of up to MaxName bytes.
NameStrings == UNION {[1..k -> NameBytes] : k \in 0..MaxName}

\* The raw prefix of the subspace root.
root == <<21>>

\* The bytes of "owner".
OwnerTag == <<111, 119, 110, 101, 114>>

\* A faulty encoding that does not escape the zero byte.
encodeStringRaw(s) == s

\* The body of a string element in the tuple encoding: a zero byte is
\* followed by 255.
RECURSIVE encodeString(_)
encodeString(s) ==
    IF s = <<>>
    THEN <<>>
    ELSE (IF Head(s) = 0 THEN <<0, 255>> ELSE <<Head(s)>>) \o encodeString(Tail(s))

\* The tuple encoding of a tuple of strings: per element the type code of a
\* string, the escaped bytes and a terminating zero byte.
RECURSIVE packTuple(_)
packTuple(tup) ==
    IF tup = <<>>
    THEN <<>>
    ELSE <<2>> \o encodeString(Head(tup)) \o <<0>> \o packTuple(Tail(tup))

\* subspace.Pack: the prefix of the subspace, then the packed tuple.
Pack(tup) == root \o packTuple(tup)

\* packOwnerKey: the tuple ("owner", name) packed under the root.
packOwnerKey(name) == Pack(<<OwnerTag, name>>)

\* The body of a string element read back: up to the first zero byte that is
\* not followed by 255; ok is FALSE when the terminator is missing.
RECURSIVE decodeString(_)
decodeString(b) ==
    IF b = <<>>
    THEN [ok |-> FALSE, val |-> <<>>, rest |-> <<>>]
    ELSE IF Head(b) = 0
         THEN IF Len(b) >= 2 /\ b[2] = 255
              THEN LET r == decodeString(Tail(Tail(b)))
                   IN  [ok |-> r.ok, val |-> <<0>> \o r.val, rest |-> r.rest]
              ELSE [ok |-> TRUE, val |-> <<>>, rest |-> Tail(b)]
         ELSE LET r == decodeString(Tail(b))
              IN  [ok |-> r.ok, val |-> <<Head(b)>> \o r.val, rest |-> r.rest]

\* The elements of a packed tuple: type code 0 is nil, 1 a byte string, 2 a
\* string; any other code is an error.
RECURSIVE unpackTuple(_)
unpackTuple(b) ==
    IF b = <<>>
    THEN [ok |-> TRUE, tup |-> <<>>]
    ELSE IF Head(b) = 0
         THEN LET r == unpackTuple(Tail(b))
              IN  [ok |-> r.ok, tup |-> <<[type |-> "nil", val |-> <<>>]>> \o r.tup]
         ELSE IF Head(b) \in {1, 2}
              THEN LET e == decodeString(Tail(b))
                       r == unpackTuple(e.rest)
                   IN  [ok |-> e.ok /\ r.ok,
                        tup |-> <<[type |-> IF Head(b) = 2 THEN "string" ELSE "bytes",
                                   val |-> e.val]>> \o r.tup]
              ELSE [ok |-> FALSE, tup |-> <<>>]

\* subspace.Unpack: an error unless the key starts with the prefix of the
\* subspace, else the tuple after it.
Unpack(key) ==
    IF Len(key) >= Len(root) /\ SubSeq(key, 1, Len(root)) = root
    THEN unpackTuple(SubSeq(key, Len(root) + 1, Len(key)))
    ELSE [ok |-> FALSE, tup |-> <<>>]

\* unpackOwnerKey: the second element of a tuple of length two, which must
\* be a string.
unpackOwnerKey(key) ==
    LET u == Unpack(key) IN
    IF ~u.ok
    THEN [name |-> <<>>, err |-> TRUE]
    ELSE IF Len(u.tup) /= 2
         THEN [name |-> <<>>, err |-> TRUE]
         ELSE IF u.tup[2].type /= "string"
              THEN [name |-> <<>>, err |-> TRUE]
              ELSE [name |-> u.tup[2].val, err |-> FALSE]

\* Whether a key lies in the range packOwnerRange returns: the keys that
\* start with the packed tuple ("owner").
inOwnerRange(key) ==
    LET p == Pack(<<OwnerTag>>)
    IN  Len(key) >= Len(p) /\ SubSeq(key, 1, Len(p)) = p

\* An owner key is packed for a name and unpacked again, as getOwner does with
\* the key setOwner wrote; last keeps the name and what came back.
PackOwnerKey(n) ==
    /\ last' = <<"packOwnerKey", n, unpackOwnerKey(packOwnerKey(n))>>
    /\ UNCHANGED <<owner, queue, version, pc, blocking, held, beatIdle, beatWrite, watch, written,
                   reapVars, cancelVars>>

\* ------------------------------------------------------------------ claims

\* C1: at most one client at a time has been told that it holds the lock (a
\* true TryAcquire or a returned Acquire, and no Release called since).
MutualExclusion == Cardinality({c \in Clients : held[c]}) <= 1

\* C2: the owner range never holds more than one key.
AtMostOneOwnerKey == Cardinality(DOMAIN owner) <= 1

\* C3: a Release by the owner installs the entry with the smallest queue key as
\* the only owner key, with an empty heartbeat, and removes that entry and no
\* other from the queue; on an empty queue it installs the blank name.
ReleaseHandsOver ==
    [][\A c \in Clients :
          (Release(c) /\ getOwner(owner).name = c) =>
              IF queue = {}
              THEN /\ DOMAIN owner' = {""}
                   /\ owner'[""] = <<>>
                   /\ queue' = {}
              ELSE \E h \in queue :
                   /\ \A e \in queue : h.key <= e.key
                   /\ DOMAIN owner' = {h.name}
                   /\ owner'[h.name] = <<>>
                   /\ queue' = queue \ {h}]_vars

\* A Release has handed the lock to the head of the queue and left another
\* entry queued.
ReleaseHandsOverWitness ==
    \E c \in Clients :
        /\ last = <<"Release", c>>
        /\ pc[c] = "stop"
        /\ queue /= {}
        /\ \E n \in Clients : DOMAIN owner = {n}

\* C8: a TryAcquire that finds the blank owner returns true, leaves the caller
\* as the only owner key with an empty heartbeat, and leaves the queue alone.
TryAcquireUnowned ==
    [][\A c \in Clients :
          (TryAcquire(c) /\ getOwner(owner).name = "") =>
              /\ last' = <<"TryFree", c>>
              /\ held'[c]
              /\ pc'[c] = "idle"
              /\ DOMAIN owner' = {c}
              /\ owner'[c] = <<>>
              /\ queue' = queue]_vars

\* A TryAcquire has just taken an unowned lock.
TryAcquireUnownedWitness ==
    \E c \in Clients :
        /\ last = <<"TryFree", c>>
        /\ held[c]
        /\ owner = (c :> <<>>)

\* C9: a TryAcquire that finds a foreign owner writes nothing in its own
\* transaction; its enqueue leaves the owner range alone, returns false, and
\* leaves exactly one entry for the caller: the queue as it was when the caller
\* was queued already, else the old queue and one entry behind all of it.
TryAcquireForeign ==
    [][\A c \in Clients :
          /\ (TryAcquire(c) /\ getOwner(owner).name \notin {c, ""}) =>
                /\ owner' = owner
                /\ queue' = queue
                /\ held' = held
                /\ pc'[c] = "enqueue"
          /\ (TryEnqueue(c) /\ ~blocking[c]) =>
                /\ owner' = owner
                /\ held' = held
                /\ last' = <<"TryFalse", c>>
                /\ pc'[c] = "idle"
                /\ Cardinality({e \in queue' : e.name = c}) = 1
                /\ IF \E e \in queue : e.name = c
                   THEN queue' = queue
                   ELSE \E n \in queue' \ queue :
                        /\ queue' = queue \cup {n}
                        /\ n.name = c
                        /\ \A e \in queue : e.key < n.key]_vars

\* A TryAcquire has returned false with the caller queued behind another entry.
TryAcquireForeignWitness ==
    \E c \in Clients :
        /\ last = <<"TryFalse", c>>
        /\ pc[c] = "idle"
        /\ ~held[c]
        /\ \E e, f \in queue : e.name = c /\ f.name /= c /\ f.key < e.key

\* C10: a TryAcquire by the owner returns true and leaves the owner range (the
\* name and its heartbeat value) and the queue as they were.
SelfReacquire ==
    [][\A c \in Clients :
          (TryAcquire(c) /\ getOwner(owner).name = c) =>
              /\ last' = <<"TryOwn", c>>
              /\ held'[c]
              /\ pc'[c] = "idle"
              /\ owner' = owner
              /\ queue' = queue
              /\ version' = version]_vars

\* The holder has called TryAcquire again after a heartbeat was written.
SelfReacquireWitness ==
    \E c \in Clients :
        /\ last = <<"TryOwn", c>>
        /\ held[c]
        /\ beatIdle[c] + beatWrite[c] = 2
        /\ c \in DOMAIN owner
        /\ owner[c] /= <<>>

\* C7: no step makes a client the owner while another client, whose queue
\* entry has the smaller key, is still queued.
FairHandOver ==
    [][\A b, c \in Clients :
          (/\ b /= c
           /\ \E eb, ec \in queue : eb.name = b /\ ec.name = c /\ eb.key < ec.key
           /\ getOwner(owner).name /= c)
          => getOwner(owner').name /= c]_vars

\* C4: a client that waits in Acquire eventually returns success, in every
\* behaviour in which holders release, the store and the goroutines keep
\* running (SpecAcquire) and the store's versionstamps stay below MaxVersion.
AcquireProgress ==
    \A c \in Pair : [](pc[c] = "wait" => <>(held[c] \/ version = MaxVersion))

\* C5: an owner that has gone silent while an auto-release loop is running
\* does not stay the owner: eventually the owner record is replaced, in every
\* behaviour in which time passes and the loop keeps running (SpecReap).
DeadOwnerReclaimed ==
    \A c \in Pair :
        []((/\ pc[c] = "dead"
            /\ getOwner(owner).name = c
            /\ \E r \in Solo : reapPc[r] /= "off")
           => <>(getOwner(owner).name /= c))

\* C6: an auto-release loop replaces a client's owner record only if the owner
\* range has not been written (setOwner or heartbeat) during the last MaxAge
\* ticks before the check.
NeverReclaimsLive ==
    [][\A r \in Reapers :
          (Reclaim(r) /\ getOwner(owner).name /= Unowned) => written = MaxAge]_vars

\* C11: a Release by a client that is not the owner leaves the owner range and
\* the queue as they are.
ReleaseByNonOwner ==
    [][\A c \in Clients :
          (Release(c) /\ getOwner(owner).name /= c) => (owner' = owner /\ queue' = queue)]_vars

\* A client that is not the owner has just called Release while another
\* client owns the lock and the queue is not empty.
ReleaseByNonOwnerWitness ==
    \E c \in Clients :
        /\ last = <<"ReleaseIdle", c>>
        /\ getOwner(owner).name \in Clients \ {c}
        /\ queue /= {}

\* C12: every Release returns, in every behaviour in which the goroutines and
\* the store keep running (SpecLive) and versionstamps stay below MaxVersion.
ReleaseReturns ==
    \A c \in Pair : [](pc[c] = "stop" => <>(pc[c] = "idle" \/ version = MaxVersion))

\* C13: the queue never holds two entries with the same name.
QueueUnique ==
    \A e, f \in queue : e.name = f.name => e = f

\* A client's enqueue has just returned while its entry was in the queue
\* already: the entry is older than the last versionstamp, which (in SpecTrio,
\* where only enqueues take versionstamps) went to a later entry of another
\* client.
QueueUniqueWitness ==
    \E c \in Clients :
        /\ last = <<"TryFalse", c>>
        /\ \E e \in queue : e.name = c /\ e.key < version

\* C14: the queue is first in, first out by commit: an enqueue that adds an
\* entry puts it behind every entry there is, so dequeue goes on returning the
\* name it returned before (the caller's own name when the queue was empty),
\* and the name dequeue returns is the one whose entry is the oldest.
FifoQueue ==
    [][\A c \in Clients :
          (TryEnqueue(c) /\ queue' /= queue) =>
              /\ \A n \in queue' \ queue : \A e \in queue : e.key < n.key
              /\ dequeue(queue').name = IF queue = {} THEN c ELSE dequeue(queue).name
              /\ \E h \in queue' :
                    /\ h.name = dequeue(queue').name
                    /\ \A e \in queue' : h.key <= e.key
                    /\ dequeue(queue').queue = queue' \ {h}]_vars

\* An enqueue has just put a client behind an entry whose name comes later in
\* the alphabet.
FifoQueueWitness ==
    \E e, f \in queue :
        /\ e.key < f.key
        /\ Rank(e.name) > Rank(f.name)
        /\ f.key = version
        /\ last = <<"TryFalse", f.name>>

\* C15: a heartbeat whose write commits when its client is not the owner
\* leaves the owner range as it is.
StaleHeartbeatHarmless ==
    [][\A c \in Clients :
          (HeartbeatWrite(c) /\ getOwner(owner).name /= c) => owner' = owner]_vars

\* C16: every heartbeat write leaves a value on the writer's owner key that is
\* not empty and greater than every versionstamp handed out before, hence
\* than every value an earlier heartbeat wrote.
HeartbeatMonotone ==
    [][\A c \in Clients :
          HeartbeatWrite(c) =>
              /\ c \in DOMAIN owner'
              /\ owner'[c] /= NoBeat
              /\ owner'[c][1] > version
              /\ \A n \in DOMAIN owner : owner[n] /= NoBeat => owner'[c][1] > owner[n][1]]_vars

\* The only client there is owns the lock, so that every versionstamp handed
\* out went to one of its heartbeats, and its key carries the latest of at
\* least two.
HeartbeatMonotoneWitness ==
    \E c \in Clients :
        /\ \A d \in Clients \ {c} : pc[d] = "none"
        /\ last = <<"TryFree", c>>
        /\ getOwner(owner).name = c
        /\ owner[c] = <<version>>
        /\ version >= 2

\* C17: once a NewMutex has completed the owner range is never empty.
OwnerExists ==
    (\E c \in Clients : pc[c] /= "none") => DOMAIN owner /= {}

\* An auto-release loop has just taken the lock from a client and, the queue
\* being empty, left the blank owner key.
OwnerExistsWitness ==
    \E c \in Clients :
        /\ last = <<"Reclaim", c>>
        /\ DOMAIN owner = {Unowned}
        /\ queue = {}

\* C18: a watch registered on the owner's key is ready to fire whenever the
\* owner is no longer the one whose key is watched.
WatchFiresOnChange ==
    \A c \in Clients :
        (pc[c] = "wait" /\ getOwner(owner).name /= watch[c].key)
            => KeyVal(owner, watch[c].key) /= watch[c].val

CancelledAcquireFails ==
    /\ \A c \in Pair :
          [](ctx[c] => <>(last = <<"Cancelled", c>> \/ version = MaxVersion))
    /\ [][\A c \in Pair :
            ctx[c] => /\ held'[c] = held[c]
                      /\ beatIdle'[c] + beatWrite'[c] = beatIdle[c] + beatWrite[c]]_vars

\* C20, amended: an Acquire whose ctx is cancelled while it waits eventually
\* returns; it returns the cancellation error, and then nothing was written
\* and the caller was not reported as holder, or it returns success as the
\* owner when its watch fired before the cancellation was noticed.
CancelledAcquireReturns ==
    /\ \A c \in Pair :
          [](ctx[c] => <>(~ctx[c] \/ version = MaxVersion))
    /\ [][\A c \in Pair :
            (ctx[c] /\ ~ctx'[c]) =>
                \/ /\ last' = <<"Cancelled", c>>
                   /\ pc'[c] = "idle"
                   /\ held' = held
                   /\ beatIdle' = beatIdle
                   /\ beatWrite' = beatWrite
                   /\ owner' = owner
                   /\ queue' = queue
                \/ /\ pc[c] = "retry"
                   /\ held'[c]
                   /\ getOwner(owner').name = c]_vars

\* A cancelled Acquire has just returned the error to a caller that does not
\* hold the lock and has no heartbeat goroutine.
CancelledAcquireReturnsWitness ==
    \E c \in Pair :
        /\ last = <<"Cancelled", c>>
        /\ pc[c] = "idle"
        /\ ~held[c]
        /\ beatIdle[c] + beatWrite[c] = 0

\* C21: once Release has returned on a Mutex, no heartbeat goroutine of that
\* Mutex is left running.
HeartbeatStopsOnRelease ==
    \A c \in Clients :
        last = <<"Released", c>> => beatIdle[c] + beatWrite[c] = 0

\* C22: a client that was told it holds the lock, stays owner and does not
\* call Release eventually has a non-empty heartbeat on its owner key
\* (SpecBeat, versionstamps below MaxVersion).
HolderHeartbeats ==
    \A c \in Pair :
        (held[c] /\ getOwner(owner).name = c)
            ~> \/ getOwner(owner) /= [name |-> c, hbeat |-> NoBeat]
               \/ ~held[c]
               \/ version = MaxVersion

\* The client has made no call since its TryAcquire returned true, and its
\* owner key carries a heartbeat.
HolderHeartbeatsWitness ==
    \E c \in Pair :
        /\ last = <<"TryFree", c>>
        /\ held[c]
        /\ getOwner(owner).name = c
        /\ getOwner(owner).hbeat /= NoBeat

\* C23: a NewMutex whose setOwner("") fails returns the error and hands out no
\* Mutex, and nothing was written.
SetupFailureSurfaced ==
    [][\A c \in Clients :
          NewMutexFail(c) =>
              /\ pc'[c] = "none"
              /\ last' = <<"NewMutexErr", c>>
              /\ owner' = owner
              /\ queue' = queue]_vars

\* NewMutex has just failed for a client, which has no Mutex, while the owner
\* range was never written.
SetupFailureSurfacedWitness ==
    \E c \in Clients :
        /\ last = <<"NewMutexErr", c>>
        /\ pc[c] = "none"
        /\ DOMAIN owner = {}

\* C24: a TryAcquire or Release whose store transaction fails returns the
\* error and leaves the owner range, the queue and the heartbeat goroutines as
\* they were.
StoreErrorsLeaveState ==
    [][\A c \in Clients :
          (TryAcquireFail(c) \/ TryEnqueueFail(c) \/ ReleaseFail(c)) =>
              /\ last' \in {<<"TryErr", c>>, <<"ReleaseErr", c>>}
              /\ pc'[c] = "idle"
              /\ owner' = owner
              /\ queue' = queue
              /\ beatIdle' = beatIdle
              /\ beatWrite' = beatWrite
              /\ held' = held]_vars

\* The Release of the holder has just failed: it still owns the lock and its
\* heartbeat goroutine still runs.
StoreErrorsLeaveStateWitness ==
    \E c \in Clients :
        /\ last = <<"ReleaseErr", c>>
        /\ held[c]
        /\ getOwner(owner).name = c
        /\ beatIdle[c] + beatWrite[c] > 0

\* C25: dequeue on an empty queue returns the blank name, removes no key and
\* leaves the owner range as it was.
DequeueEmpty ==
    [][(KvDequeue /\ queue = {}) =>
          /\ last' = <<"dequeue", Unowned>>
          /\ queue' = {}
          /\ owner' = owner]_vars

\* dequeue has just returned the blank name while a client owns the lock.
DequeueEmptyWitness ==
    /\ last = <<"dequeue", Unowned>>
    /\ queue = {}
    /\ getOwner(owner).name /= Unowned

\* C30: right after setOwner(name) commits, getOwner returns that name with
\* an empty heartbeat, whatever the owner range held before.
SetOwnerResets ==
    [][\A n \in Names :
          KvSetOwner(n) => getOwner(owner') = [name |-> n, hbeat |-> NoBeat]]_vars

\* setOwner has just been called with the name of the owner, whose heartbeat
\* was not empty, and the heartbeat is empty now.
SetOwnerResetsWitness ==
    /\ last[1] = "setOwner"
    /\ last[3].name = last[2]
    /\ last[3].name /= Unowned
    /\ last[3].hbeat /= NoBeat
    /\ getOwner(owner) = [name |-> last[2], hbeat |-> NoBeat]

\* C26: the enqueue of a TryAcquire commits an entry only when the lock is
\* owned by another client at that commit.
TryAcquireAtomic ==
    [][\A c \in Clients :
          (TryEnqueue(c) /\ queue' /= queue) =>
              getOwner(owner).name \notin {c, Unowned}]_vars

\* C27: every commit that removes an entry from the queue removes exactly one
\* and installs its name as the owner, with an empty heartbeat, in that same
\* commit.
NoWaiterLost ==
    [][queue' /= queue /\ queue' \subseteq queue =>
          \E e \in queue :
              /\ queue' = queue \ {e}
              /\ getOwner(owner') = [name |-> e.name, hbeat |-> NoBeat]
              /\ DOMAIN owner' = {e.name}]_vars

\* An auto-release loop has just taken the lock from one client and handed it
\* to the client that was waiting.
NoWaiterLostWitness ==
    \E c, d \in Pair :
        /\ c /= d
        /\ last = <<"Reclaim", c>>
        /\ getOwner(owner).name = d
        /\ queue = {}

\* C28: a check that presumes the owner dead right after another check took
\* the lock from a dead owner, before any client made a call and before
\* MaxAge ticks have passed, removes no further entry from the queue.
ReclaimOnce ==
    [][\A r \in Reapers : \A c \in Clients :
          (Reclaim(r) /\ last = <<"Reclaim", c>> /\ written < MaxAge) => queue' = queue]_vars

\* C29: a check of an auto-release loop leaves the owner range and the queue
\* as they are whenever the owner it reads differs from the loop's snapshot in
\* name or heartbeat, or less than MaxAge ticks have passed since tstamp.
LiveCheckReadOnly ==
    [][\A r \in Reapers :
          (/\ ReapCheck(r)
           /\ \/ getOwner(owner).name /= snapshot[r].name
              \/ getOwner(owner).hbeat /= snapshot[r].hbeat
              \/ tstamp[r] < MaxAge)
              => (owner' = owner /\ queue' = queue)]_vars

\* A check has just found a client's heartbeat changed since the snapshot,
\* MaxAge ticks after it, with a waiter in the queue: it kept the owner and
\* the waiter, and follows the new heartbeat.
LiveCheckReadOnlyWitness ==
    \E r \in Solo : \E c \in Pair :
        /\ reapPc[r] = "watch"
        /\ getOwner(owner).name = c
        /\ getOwner(owner).hbeat /= NoBeat
        /\ snapshot[r] = getOwner(owner)
        /\ tstamp[r] = 0
        /\ written = MaxAge
        /\ queue /= {}

\* C31: the key of the blank owner name never carries a heartbeat, so whenever
\* the owner name is blank the heartbeat is empty.
UnownedHasNoHeartbeat ==
    /\ Unowned \in DOMAIN owner => owner[Unowned] = NoBeat
    /\ getOwner(owner).name = Unowned => getOwner(owner).hbeat = NoBeat

\* heartbeat has just been called with the blank name while the blank owner
\* key was there, after versionstamps had been handed out.
UnownedHasNoHeartbeatWitness ==
    /\ last = <<"heartbeat", Unowned>>
    /\ Unowned \in DOMAIN owner
    /\ version > 0

\* C32: the channel of a watch gets a value only once per watchOwner: a value
\* is delivered only while the call waits on a channel that is still empty,
\* or by a setup that failed and registered nothing, and the delivery ends
\* the wait.
WatchSingleShot ==
    [][\A c \in Pair :
          signal'[c] /= signal[c] =>
              \/ signal'[c] = "none"
              \/ /\ signal[c] = "none"
                 /\ signal'[c] \in {"ok", "err"}
                 /\ pc[c] \in {"watch", "wait"}
                 /\ pc'[c] \notin {"watch", "wait"}
                 /\ pc[c] = "watch" => (signal'[c] = "err" /\ watch'[c] = watch[c])]_vars

\* The watch of a client fired although its ctx was cancelled too: the
\* channel holds the success, and the cancellation adds nothing to it.
WatchSingleShotWitness ==
    \E c \in Pair :
        /\ pc[c] = "retry"
        /\ ctx[c]
        /\ signal[c] = "ok"

\* C33: a heartbeat call that fails changes neither the store nor the Mutex,
\* and its goroutine is back in its select, where the next tick or the stop
\* signal finds it.
HeartbeatErrorsSwallowed ==
    [][\A c \in Clients :
          HeartbeatFail(c) =>
              /\ owner' = owner
              /\ queue' = queue
              /\ version' = version
              /\ pc' = pc
              /\ held' = held
              /\ beatIdle'[c] + beatWrite'[c] = beatIdle[c] + beatWrite[c]
              /\ beatIdle'[c] > 0]_vars

\* The only heartbeat goroutine of a holder has just had its call fail: the
\* heartbeat is still empty and the goroutine waits for its next tick.
HeartbeatErrorsSwallowedWitness ==
    \E c \in Pair :
        /\ last = <<"BeatErr", c>>
        /\ held[c]
        /\ getOwner(owner) = [name |-> c, hbeat |-> NoBeat]
        /\ beatIdle[c] = 1
        /\ beatWrite[c] = 0

\* C35: the client named in the owner record has no entry in the queue.
OwnerNotQueued ==
    \A e \in queue : e.name /= getOwner(owner).name

\* C36: once a NewMutex has completed, the queue is empty whenever the owner
\* name is blank.
UnownedHasNoWaiters ==
    ((\E c \in Clients : pc[c] /= "none") /\ getOwner(owner).name = Unowned) => queue = {}

\* C37: a Mutex that is held has exactly one heartbeat goroutine.
OneHeartbeatPerHolder ==
    \A c \in Clients : held[c] => beatIdle[c] + beatWrite[c] = 1

\* C38: a NewMutex on a subspace whose lock is owned or whose queue is not
\* empty leaves the owner range and the queue as they are.
NewMutexLeavesLock ==
    [][\A c \in Clients :
          (NewMutex(c) /\ (getOwner(owner).name /= Unowned \/ queue /= {})) =>
              (owner' = owner /\ queue' = queue)]_vars

\* C39: the owner key packed for a name unpacks to that name without error,
\* lies in the owner range, and differs from the key of every other name.
OwnerKeyRoundTrip ==
    last[1] = "packOwnerKey" =>
        /\ last[3] = [name |-> last[2], err |-> FALSE]
        /\ inOwnerRange(packOwnerKey(last[2]))
        /\ \A m \in NameStrings : m /= last[2] => packOwnerKey(m) /= packOwnerKey(last[2])

\* The name that was packed holds a zero byte followed by 255, the very
\* bytes the encoding writes for a zero byte.
OwnerKeyRoundTripWitness ==
    /\ last[1] = "packOwnerKey"
    /\ Len(last[2]) = MaxName
    /\ \E i \in 1..(MaxName - 1) : last[2][i] = 0 /\ last[2][i + 1] = 255

\* C34 as stated: the loop returns only when its ctx was cancelled, a
\* cancelled loop eventually returns, and no check of a cancelled loop changes
\* the owner or the queue.
ReapUntilCancelledStated ==
    /\ [][\A r \in Solo : (reapPc[r] /= "done" /\ reapPc'[r] = "done") => reapCtx[r]]_vars
    /\ \A r \in Solo : reapCtx[r] ~> (reapPc[r] = "done")
    /\ [][\A r \in Solo : (reapCtx[r] /\ ReapCheck(r)) => (owner' = owner /\ queue' = queue)]_vars

\* C34: the loop returns only when its ctx was cancelled and then reports the
\* cancellation, a cancelled loop eventually returns, and a loop that
\* returned stays returned and runs no further check; a check that runs
\* between the cancellation and the return may still commit.
ReapUntilCancelled ==
    /\ [][\A r \in Solo : (reapPc[r] /= "done" /\ reapPc'[r] = "done")
                            => (reapCtx[r] /\ last' = <<"ReapCancelled", r>>)]_vars
    /\ \A r \in Solo : reapCtx[r] ~> (reapPc[r] = "done")
    /\ [][\A r \in Solo : reapPc[r] = "done"
                            => (reapPc'[r] = "done" /\ ~ReapCheck(r) /\ ~Reclaim(r))]_vars

\* A cancelled loop has returned while a client owns the lock.
ReapUntilCancelledWitness ==
    \E r \in Solo :
        /\ reapPc[r] = "done"
        /\ reapCtx[r]
        /\ last = <<"ReapCancelled", r>>
        /\ getOwner(owner).name /= Unowned

\* ------------------------------------------------------------------ specifications

\* The foreground calls and goroutines of one client.
Client(c) ==
    \/ NewMutex(c)
    \/ TryAcquire(c)
    \/ TryEnqueue(c)
    \/ Acquire(c)
    \/ AcquireRetry(c)
    \/ watchOwner(c)
    \/ WatchFire(c)
    \/ Release(c)
    \/ stopBeating(c)
    \/ HeartbeatRead(c)
    \/ HeartbeatWrite(c)

Next ==
    \E c \in Pair : Client(c)

Spec == Init /\ [][Next]_vars

\* Release, called by a client that holds the lock.
ReleaseHeld(c) == held[c] /\ Release(c)

\* Two clients that take the lock with Acquire and give it back with Release.
Blocking(c) ==
    \/ NewMutex(c)
    \/ Acquire(c)
    \/ AcquireRetry(c)
    \/ TryEnqueue(c)
    \/ watchOwner(c)
    \/ WatchFire(c)
    \/ ReleaseHeld(c)
    \/ stopBeating(c)
    \/ HeartbeatRead(c)
    \/ HeartbeatWrite(c)

NextAcquire ==
    \E c \in Pair : Blocking(c)

\* A call that was made runs to its end, every holder calls Release, the
\* store fires a watch whose key changed, and the heartbeat goroutines are
\* scheduled; whether a client calls NewMutex or Acquire at all is left open.
FairAcquire ==
    \A c \in Pair :
        /\ WF_vars(AcquireRetry(c))
        /\ WF_vars(TryEnqueue(c))
        /\ WF_vars(watchOwner(c))
        /\ WF_vars(WatchFire(c))
        /\ WF_vars(ReleaseHeld(c))
        /\ WF_vars(stopBeating(c))
        /\ WF_vars(HeartbeatRead(c))
        /\ WF_vars(HeartbeatWrite(c))

SpecAcquire == Init /\ [][NextAcquire]_vars /\ FairAcquire

\* Three clients and their foreground calls, without the heartbeat writes.
Queueing(c) ==
    \/ NewMutex(c)
    \/ TryAcquire(c)
    \/ TryEnqueue(c)
    \/ Release(c)
    \/ stopBeating(c)

NextTrio ==
    \E c \in Clients : Queueing(c)

SpecTrio == Init /\ [][NextTrio]_vars

\* The heartbeat goroutines run, transactions commit and a send on the stop
\* channel completes once a goroutine receives.
FairClient ==
    \A c \in Pair :
        /\ WF_vars(TryEnqueue(c))
        /\ WF_vars(stopBeating(c))
        /\ WF_vars(HeartbeatWrite(c))

SpecLive == Init /\ [][Next]_vars /\ FairClient

\* TryAcquire by a client that does not hold the lock.
TryAcquireIdle(c) == ~held[c] /\ TryAcquire(c)

\* Clients that call TryAcquire when they do not hold the lock and Release
\* when they do, or go silent, while one auto-release loop runs and time passes.
Reaped(c) ==
    \/ NewMutex(c)
    \/ TryAcquireIdle(c)
    \/ TryEnqueue(c)
    \/ ReleaseHeld(c)
    \/ stopBeating(c)
    \/ HeartbeatRead(c)
    \/ HeartbeatWrite(c)
    \/ Crash(c)

Reaper(r) ==
    \/ AutoRelease(r)
    \/ ReapWatch(r)
    \/ ReapCheck(r)

NextReap ==
    \/ \E c \in Pair : Reaped(c)
    \/ \E r \in Solo : Reaper(r)
    \/ Tick

\* Time passes and the loop takes every step it can.
FairReap ==
    /\ WF_vars(Tick)
    /\ \A r \in Solo : WF_vars(ReapWatch(r)) /\ WF_vars(ReapCheck(r))

SpecReap == Init /\ [][NextReap]_vars /\ FairReap

\* Acquire by a client that does not hold the lock.
AcquireIdle(c) == ~held[c] /\ Acquire(c)

\* Clients that call Acquire when they do not hold the lock and Release when
\* they do, and whose ctx may be cancelled while they wait.
Cancelling(c) ==
    \/ NewMutex(c)
    \/ AcquireIdle(c)
    \/ AcquireRetry(c)
    \/ TryEnqueue(c)
    \/ watchOwner(c)
    \/ WatchFire(c)
    \/ ReleaseHeld(c)
    \/ stopBeating(c)
    \/ HeartbeatRead(c)
    \/ HeartbeatWrite(c)
    \/ CtxCancel(c)
    \/ WatchCancel(c)

NextCancel ==
    \E c \in Pair : Cancelling(c)

\* A call that was made runs on, transactions commit, the store fires a watch
\* whose key changed, and the select of a waiting Acquire does not pass over a
\* cancelled ctx forever; whether a holder releases and whether a heartbeat
\* ticks is left open.
FairCancel ==
    \A c \in Pair :
        /\ WF_vars(AcquireRetry(c))
        /\ WF_vars(TryEnqueue(c))
        /\ WF_vars(watchOwner(c))
        /\ WF_vars(WatchFire(c))
        /\ WF_vars(stopBeating(c))
        /\ WF_vars(HeartbeatWrite(c))
        /\ SF_vars(WatchCancel(c))

SpecCancel == Init /\ [][NextCancel]_vars /\ FairCancel

\* Two clients that call NewMutex, TryAcquire and Release in any order, and
\* their heartbeat goroutines.
Trying(c) ==
    \/ NewMutex(c)
    \/ TryAcquire(c)
    \/ TryEnqueue(c)
    \/ Release(c)
    \/ stopBeating(c)
    \/ HeartbeatRead(c)
    \/ HeartbeatWrite(c)

NextTry ==
    \E c \in Pair : Trying(c)

\* The ticker of a heartbeat goroutine keeps ticking and the heartbeat's
\* transaction commits; what the clients call is left open.
FairBeat ==
    \A c \in Pair :
        /\ WF_vars(HeartbeatRead(c))
        /\ WF_vars(HeartbeatWrite(c))

SpecBeat == Init /\ [][NextTry]_vars /\ FairBeat

\* The calls of a client whose store transaction fails.
Failing(c) ==
    \/ NewMutexFail(c)
    \/ TryAcquireFail(c)
    \/ TryEnqueueFail(c)
    \/ ReleaseFail(c)

\* Two clients, their heartbeat goroutines, and a store that may fail any
\* transaction of a foreground call.
NextErr ==
    \E c \in Pair : Trying(c) \/ Failing(c)

SpecErr == Init /\ [][NextErr]_vars

\* The calls TestKV makes on a kv, in any order.
NextKV ==
    \/ \E n \in Pair \cup {Unowned} : KvSetOwner(n)
    \/ \E n \in Pair : KvEnqueue(n)
    \/ KvDequeue
    \/ \E n \in Pair \cup {Unowned} : KvHeartbeat(n)

SpecKV == Init /\ [][NextKV]_vars

\* Clients that call TryAcquire when they do not hold the lock and Release
\* when they do, or go silent before their heartbeat ticks, all of it before
\* the first auto-release loop is started.
Silent(c) ==
    /\ \A r \in Reapers : reapPc[r] = "off"
    /\ \/ NewMutex(c)
       \/ TryAcquireIdle(c)
       \/ TryEnqueue(c)
       \/ ReleaseHeld(c)
       \/ stopBeating(c)
       \/ Crash(c)

\* Two auto-release loops on the same subspace, started at any time after
\* one another, and the clock.
NextReapers ==
    \/ \E c \in Pair : Silent(c)
    \/ \E r \in Reapers : Reaper(r)
    \/ Tick

SpecReapers == Init /\ [][NextReapers]_vars

\* The clients of SpecCancel, and a store that may fail the transaction of
\* watchOwner.
NextWatch ==
    \E c \in Pair : Cancelling(c) \/ watchOwnerFail(c)

SpecWatch == Init /\ [][NextWatch]_vars

\* Two clients, their heartbeat goroutines, and a store that may fail the
\* transaction of a heartbeat.
NextBeatErr ==
    \E c \in Pair : Trying(c) \/ HeartbeatFail(c)

SpecBeatErr == Init /\ [][NextBeatErr]_vars

\* Owner keys packed and unpacked for every name.
NextPack ==
    \E n \in NameStrings : PackOwnerKey(n)

SpecPack == Init /\ [][NextPack]_vars

\* Clients that take the lock, heartbeat and go silent.
Mortal(c) ==
    \/ NewMutex(c)
    \/ TryAcquireIdle(c)
    \/ TryEnqueue(c)
    \/ HeartbeatRead(c)
    \/ HeartbeatWrite(c)
    \/ Crash(c)

\* One auto-release loop whose ctx is cancelled at some point.
NextReapCancel ==
    \/ \E c \in Pair : Mortal(c)
    \/ \E r \in Solo : Reaper(r) \/ ReapCancel(r) \/ ReapReturn(r)
    \/ Tick

\* Time passes, the loop takes every step it can, and a select that is
\* ready to yield the cancellation again and again yields it in the end.
FairReapCancel ==
    /\ WF_vars(Tick)
    /\ \A r \in Solo : WF_vars(ReapWatch(r)) /\ WF_vars(ReapCheck(r)) /\ SF_vars(ReapReturn(r))

SpecReapCancel == Init /\ [][NextReapCancel]_vars /\ FairReapCancel

====
